---- MODULE Spec2Model ----
(***************************************************************************)
(* A model of core/llm_router.py: the LLMRouter instance (`router`), the   *)
(* wall clock (`now`) and the generate() coroutines in flight (`gen`);     *)
(* of the module-level singleton accessor of the router; of the task       *)
(* queue of agents/scheduler_agent.py; and of the main loop and the rate   *)
(* limiter of runner/main.py.                                              *)
(* One action is one run of the code between two suspension points         *)
(* (await of a provider call, await of asyncio.sleep).                     *)
(*                                                                         *)
(* Money is counted in units of 10^-8 USD (tokens * rate-per-million in    *)
(* cents gives exactly that unit), time in seconds, dates in days.         *)
(***************************************************************************)
EXTENDS Integers, Sequences, FiniteSets, TLC

VARIABLES
    router,    \* the LLMRouter object: one record field per attribute
    now,       \* the wall clock read by time.time() / datetime.now()
    gen,       \* gen[c]: the frame of generate() invocation slot c
    issued,    \* issued[p]: provider calls started on p so far (observer)
    streak,    \* streak[p]: provider calls on p that have failed since the
               \* last one that succeeded, counted up to the breaker's
               \* threshold (observer)
    ops,       \* operations started so far: generate() invocations, clock
               \* advances, administrative calls (bounds the run)
    llm_router,      \* the module global _llm_router: 0 for None, else the
                     \* identity of an LLMRouter instance
    instances,       \* instances[i]: the LLMRouter object of identity i
    handles,         \* the get_llm_router() calls so far, in order: what
                     \* each returned (observer)
    task_queue,      \* SchedulerAgent.task_queue: the task dicts queued,
                     \* each with the identity (obj) of the dict object
    scheduled_tasks, \* SchedulerAgent.scheduled_tasks: task_id -> identity
                     \* of the task dict registered under it
    task_status,     \* task_status[obj]: the "status" entry of task dict obj
    assigned,        \* the last get_next_task() call: the queue it found
                     \* and what it returned (observer)
    config,          \* Runner.config: the RunnerConfig
    job_timestamps,  \* Runner.job_timestamps
    runner_pc,       \* where Runner._main_loop stands
    pending,         \* jobs of the current iteration still to execute
    iteration        \* the current iteration of the main loop: what the
                     \* rate limit check returned, jobs executed (observer)

routerVars == <<router, gen, issued, streak>>
singletonVars == <<llm_router, instances, handles>>
schedulerVars == <<task_queue, assigned, scheduled_tasks, task_status>>
runnerVars == <<config, job_timestamps, runner_pc, pending, iteration>>

vars == <<router, now, gen, issued, streak, ops,
          llm_router, instances, handles, task_queue, assigned,
          scheduled_tasks, task_status,
          config, job_timestamps, runner_pc, pending, iteration>>

----------------------------------------------------------------------------
(* class LLMProvider *)

ANTHROPIC == "anthropic"
GEMINI == "gemini"
PERPLEXITY == "perplexity"
OPENAI == "openai"

LLMProvider == {ANTHROPIC, GEMINI, PERPLEXITY, OPENAI}

\* Python's None, and None where the other values are numbers
None == "None"
NoneInt == 0 - 1

----------------------------------------------------------------------------
(* Bounds of the model *)

\* operations per run: generate() invocations, clock advances and
\* administrative calls together
MaxOps == 2
\* get_llm_router(), reset_llm_router() calls and uses of the router they
\* return, per run
MaxCalls == 5
\* iterations of Runner._main_loop per run
MaxIterations == 4
\* nesting depth of _fallback_generate at which the interpreter raises
\* RecursionError (sys.getrecursionlimit(), scaled down)
RecursionLimit == 2
\* the clock at construction: shortly before midnight of day 0
StartTime == 86099

----------------------------------------------------------------------------
(* Program constants *)

circuit_breaker_threshold == 5
circuit_breaker_reset_time == 300
RateWindow == 60
UsageHistoryMaxLen == 1000
RequestTimestampsMaxLen == 100
DefaultEstimatedTokens == 4096
DefaultRequestsPerMinute == 60
SecondsPerDay == 86400
\* Runner._check_rate_limit: the per-minute and per-hour windows, and the
\* sleep of the main loop when the check fails
RunnerMinuteWindow == 60
RunnerHourWindow == 3600
ThrottleSleep == 60
\* datetime.max, on the scale of the deadlines: later than any of them
DatetimeMax == 9999

\* self.retry_delays
retry_delays == <<2, 4, 8>>

\* self.rate_limits[provider]["requests_per_minute"]
requests_per_minute(p) ==
    CASE p = ANTHROPIC -> 50
      [] p = GEMINI -> 60
      [] p = PERPLEXITY -> 20
      [] p = OPENAI -> 60
      [] OTHER -> DefaultRequestsPerMinute

\* cost_per_million in _record_cost, in cents per million tokens
cost_per_million(p) ==
    CASE p = ANTHROPIC -> 300
      [] p = GEMINI -> 125
      [] p = PERPLEXITY -> 100
      [] p = OPENAI -> 3000
      [] OTHER -> 100

\* the rate hard-coded in generate()'s "estimated_cost" (3.0 USD per million)
ReportedRate == 300

----------------------------------------------------------------------------
(* Sequence helpers: the list and deque operations the code uses *)

Min(a, b) == IF a <= b THEN a ELSE b
Max(a, b) == IF a >= b THEN a ELSE b

Contains(s, x) == \E i \in 1..Len(s) : s[i] = x

\* list.remove(x): drops the first occurrence
RemoveFirst(s, x) ==
    IF ~Contains(s, x) THEN s
    ELSE LET i == CHOOSE k \in 1..Len(s) :
                      s[k] = x /\ \A j \in 1..(k - 1) : s[j] /= x
         IN  SubSeq(s, 1, i - 1) \o SubSeq(s, i + 1, Len(s))

\* an append that never evicts
AppendUnbounded(s, x, n) == Append(s, x)

\* deque(maxlen=n).append(x)
DequeAppend(s, x, n) ==
    IF Len(s) >= n THEN Append(Tail(s), x) ELSE Append(s, x)

\* datetime.now().date()
Today(t) == t \div SecondsPerDay

----------------------------------------------------------------------------
(* LLMRouter.__init__ and _load_provider_configs *)

DefaultPriority == <<ANTHROPIC, GEMINI, PERPLEXITY>>

\* env: the environment and constructor arguments
\*   api_keys: providers whose *_API_KEY is set
\*   enable_openai: enable_openai argument or OPENAI_ENABLED
\*   priority: LLM_PRIORITY or the priority argument, None for neither
LoadProviderConfigs(env, enable_openai) ==
    [p \in LLMProvider |->
        [api_key |-> p \in env.api_keys,
         enabled |-> IF p = OPENAI
                     THEN enable_openai /\ p \in env.api_keys
                     ELSE p \in env.api_keys]]

Construct(env, t) ==
    LET given == IF env.priority = None THEN DefaultPriority ELSE env.priority
        prio  == IF ~env.enable_openai /\ Contains(given, OPENAI)
                 THEN RemoveFirst(given, OPENAI)
                 ELSE given
    IN  [ enable_openai          |-> env.enable_openai,
          perplexity_search_only |-> env.perplexity_search_only,
          dry_run                |-> env.dry_run,
          daily_max_cost         |-> env.daily_max_cost,
          daily_cost_used        |-> 0,
          cost_reset_date        |-> Today(t),
          max_retries            |-> env.max_retries,
          priority               |-> prio,
          providers_config       |-> LoadProviderConfigs(env, env.enable_openai),
          usage_stats            |-> [p \in LLMProvider |-> 0],
          usage_history          |-> << >>,
          request_timestamps     |-> [p \in LLMProvider |-> << >>],
          error_counts           |-> [p \in LLMProvider |-> 0],
          circuit_breaker_timers |-> [p \in LLMProvider |-> NoneInt] ]

----------------------------------------------------------------------------
(* The gates *)

Enabled(r, p) == p \in LLMProvider /\ r.providers_config[p].enabled

get_available_providers(r) ==
    LET Keep(p) == Enabled(r, p) IN SelectSeq(r.priority, Keep)

\* a breaker that already expires when the window has just elapsed
BreakerExpiredAtWindow(r, p, t) ==
    /\ r.circuit_breaker_timers[p] /= NoneInt
    /\ t - r.circuit_breaker_timers[p] >= circuit_breaker_reset_time

\* _is_circuit_breaker_open: has the reset window elapsed (line 181)
BreakerExpired(r, p, t) ==
    /\ r.circuit_breaker_timers[p] /= NoneInt
    /\ t - r.circuit_breaker_timers[p] > circuit_breaker_reset_time

IsCircuitBreakerOpen(r, p, t) ==
    r.circuit_breaker_timers[p] /= NoneInt /\ ~BreakerExpired(r, p, t)

\* _is_circuit_breaker_open: its side effect, for every provider of S
BreakerChecked(r, S, t) ==
    [r EXCEPT
        !.circuit_breaker_timers =
            [p \in LLMProvider |->
                IF p \in S /\ BreakerExpired(r, p, t) THEN NoneInt ELSE @[p]],
        !.error_counts =
            [p \in LLMProvider |->
                IF p \in S /\ BreakerExpired(r, p, t) THEN 0 ELSE @[p]]]

\* _check_rate_limit: the timestamps left after popping the stale head
RECURSIVE PruneStale(_, _)
PruneStale(ts, t) ==
    IF ts /= << >> /\ t - Head(ts) > RateWindow
    THEN PruneStale(Tail(ts), t)
    ELSE ts

\* a rate limit check that counts the stale timestamps too
CheckRateLimitUnpruned(r, p, t) ==
    ~(Len(r.request_timestamps[p]) >= requests_per_minute(p))

\* _check_rate_limit: the value returned
CheckRateLimit(r, p, t) ==
    ~(Len(PruneStale(r.request_timestamps[p], t)) >= requests_per_minute(p))

\* _check_rate_limit: its side effect, for every provider of S
RateChecked(r, S, t) ==
    [r EXCEPT
        !.request_timestamps =
            [p \in LLMProvider |->
                IF p \in S THEN PruneStale(@[p], t) ELSE @[p]]]

\* a budget check that never rolls the day over
BudgetNeverRolls(r, t) == r

\* _check_daily_budget: the router after the lazy rollover
BudgetChecked(r, t) ==
    IF Today(t) > r.cost_reset_date
    THEN [r EXCEPT !.daily_cost_used = 0, !.cost_reset_date = Today(t)]
    ELSE r

\* _check_daily_budget: the value returned
CheckDailyBudget(r, t) ==
    LET r1 == BudgetChecked(r, t)
    IN  ~(r1.daily_cost_used >= r1.daily_max_cost)

\* max_tokens or 4096
EstimatedTokens(max_tokens) ==
    IF max_tokens = NoneInt \/ max_tokens = 0
    THEN DefaultEstimatedTokens
    ELSE max_tokens

\* _record_cost
RecordCost(r, p, tokens) ==
    [r EXCEPT !.daily_cost_used = @ + tokens * cost_per_million(p)]

\* _record_error
RecordError(r, p, t) ==
    LET r1 == [r EXCEPT
                 !.error_counts[p] = @ + 1,
                 !.usage_history =
                     DequeAppend(@, [provider |-> p, timestamp |-> t,
                                     success |-> FALSE], UsageHistoryMaxLen)]
    IN  IF r1.error_counts[p] >= circuit_breaker_threshold
        THEN [r1 EXCEPT !.circuit_breaker_timers[p] = t]
        ELSE r1

\* a success branch that leaves error_counts as it is
RecordSuccessKeepsErrors(r, p, max_tokens, t) ==
    LET r1 == [r EXCEPT
                 !.usage_stats[p] = @ + 1,
                 !.usage_history =
                     DequeAppend(@, [provider |-> p, timestamp |-> t,
                                     success |-> TRUE], UsageHistoryMaxLen),
                 !.request_timestamps[p] =
                     DequeAppend(@, t, RequestTimestampsMaxLen)]
    IN  RecordCost(r1, p, EstimatedTokens(max_tokens))

\* the success branch of generate()'s retry loop (lines 451-467)
RecordSuccess(r, p, max_tokens, t) ==
    LET r1 == [r EXCEPT
                 !.usage_stats[p] = @ + 1,
                 !.usage_history =
                     DequeAppend(@, [provider |-> p, timestamp |-> t,
                                     success |-> TRUE], UsageHistoryMaxLen),
                 !.request_timestamps[p] =
                     DequeAppend(@, t, RequestTimestampsMaxLen)]
        r2 == RecordCost(r1, p, EstimatedTokens(max_tokens))
    IN  [r2 EXCEPT !.error_counts[p] = 0]

----------------------------------------------------------------------------
(* select_provider: a record of the provider returned (or None) and of    *)
(* the router after the side effects of the checks made on the way         *)

\* lines 304-342: is the preferred provider looked up at all
PreferredConsidered(r, preferred_provider, task_type) ==
    /\ preferred_provider /= None
    /\ ~(preferred_provider = OPENAI /\ ~r.enable_openai)
    /\ ~(/\ preferred_provider = PERPLEXITY
         /\ r.perplexity_search_only
         /\ task_type /= "search")
    /\ Enabled(r, preferred_provider)

\* lines 345-352: is the breaker of Perplexity checked for a search task
SearchConsidered(r, task_type) ==
    /\ task_type = "search"
    /\ Contains(r.priority, PERPLEXITY)
    /\ Enabled(r, PERPLEXITY)

\* a priority-order pass that leaves the breakers out
SelectByPriorityAnyBreaker(r, task_type, t) ==
    LET available == get_available_providers(r)
        NotSearchOnly(p) ==
            ~(r.perplexity_search_only /\ task_type /= "search"
              /\ p = PERPLEXITY)
        a1 == SelectSeq(available, NotSearchOnly)
        UnderLimit(p) == CheckRateLimit(r, p, t)
        a3 == SelectSeq(a1, UnderLimit)
        r2 == RateChecked(r, {a1[i] : i \in 1..Len(a1)}, t)
    IN  [provider |-> IF a3 = << >> THEN None ELSE a3[1], r |-> r2]

\* lines 355-379: the priority-order pass
SelectByPriority(r, task_type, t) ==
    LET available == get_available_providers(r)
        NotSearchOnly(p) ==
            ~(r.perplexity_search_only /\ task_type /= "search"
              /\ p = PERPLEXITY)
        a1 == SelectSeq(available, NotSearchOnly)
        BreakerClosed(p) == ~IsCircuitBreakerOpen(r, p, t)
        a2 == SelectSeq(a1, BreakerClosed)
        r1 == BreakerChecked(r, {a1[i] : i \in 1..Len(a1)}, t)
        UnderLimit(p) == CheckRateLimit(r1, p, t)
        a3 == SelectSeq(a2, UnderLimit)
        r2 == RateChecked(r1, {a2[i] : i \in 1..Len(a2)}, t)
    IN  [provider |-> IF a3 = << >> THEN None ELSE a3[1], r |-> r2]

\* a selection that goes straight to the priority-order pass
SelectWithoutAffinity(r, task_type, t) == SelectByPriority(r, task_type, t)

\* lines 344-379: search affinity, then the priority-order pass
SelectBySearch(r, task_type, t) ==
    IF SearchConsidered(r, task_type)
    THEN IF ~IsCircuitBreakerOpen(r, PERPLEXITY, t)
         THEN [provider |-> PERPLEXITY,
               r |-> BreakerChecked(r, {PERPLEXITY}, t)]
         ELSE SelectByPriority(r, task_type, t)
    ELSE SelectByPriority(r, task_type, t)

\* a selection that leaves the preferred provider out
SelectIgnoringPreference(r, preferred_provider, task_type, t) ==
    SelectBySearch(r, task_type, t)

select_provider(r, preferred_provider, task_type, t) ==
    IF PreferredConsidered(r, preferred_provider, task_type)
    THEN IF IsCircuitBreakerOpen(r, preferred_provider, t)
         THEN SelectBySearch(r, task_type, t)
         ELSE [provider |-> preferred_provider,
               r |-> BreakerChecked(r, {preferred_provider}, t)]
    ELSE SelectBySearch(r, task_type, t)

----------------------------------------------------------------------------
(* generate() and _fallback_generate(): the frame of one invocation        *)
(*   pc: "idle" (not yet called), "call" (awaiting the primary provider    *)
(*       call), "sleep" (awaiting the backoff sleep), "fbcall" (awaiting a *)
(*       fallback provider call), "done" (returned or raised: see result)  *)
(*   log: the provider calls of this invocation that have ended, in order, *)
(*       each with its phase ("primary": the retry loop, "fallback")       *)
(*   before: the router when the invocation started                        *)

\* the callers of generate(): slot 1 is the sequential caller
Callers == {1, 2}

NoResult ==
    [status |-> None, provider |-> None, error |-> None, dry_run |-> FALSE,
     retries |-> NoneInt, cost |-> NoneInt, fallback_from |-> None]

IdleFrame ==
    [pc |-> "idle", preferred_provider |-> None, task_type |-> None,
     max_tokens |-> NoneInt, provider |-> None, retry |-> 0,
     wake_at |-> NoneInt, failed_provider |-> None, next_provider |-> None,
     available_len |-> 0, depth |-> 0, log |-> << >>, before |-> None,
     result |-> NoResult]

Returned(f, res) == [f EXCEPT !.pc = "done", !.result = res]

\* the return statements of generate() and _fallback_generate()
NoProviderError == [NoResult EXCEPT !.status = "error", !.error = "no_provider"]
BudgetError == [NoResult EXCEPT !.status = "error", !.error = "budget"]
AllFailedError == [NoResult EXCEPT !.status = "error", !.error = "all_failed"]
RecursionErrorRaised == [NoResult EXCEPT !.status = "raised"]

DryRunSuccess(p) ==
    [NoResult EXCEPT !.status = "success", !.provider = p, !.dry_run = TRUE,
                     !.cost = 0]

PrimarySuccess(p, retry, max_tokens) ==
    [NoResult EXCEPT !.status = "success", !.provider = p, !.retries = retry,
                     !.cost = EstimatedTokens(max_tokens) * ReportedRate]

FallbackSuccess(next_provider, failed_provider) ==
    [NoResult EXCEPT !.status = "success", !.provider = next_provider,
                     !.fallback_from = failed_provider]

\* _fallback_generate up to its await (lines 762-785): the frame after it
FallbackEnter(r, f, failed_provider, depth) ==
    LET NotFailed(p) == p /= failed_provider
        available == SelectSeq(get_available_providers(r), NotFailed)
    IN  IF available = << >>
        THEN Returned(f, AllFailedError)
        ELSE [f EXCEPT !.pc = "fbcall",
                       !.failed_provider = failed_provider,
                       !.next_provider = available[1],
                       !.available_len = Len(available),
                       !.depth = depth]

\* the provider call a frame is awaiting, if any
Awaited(f) ==
    CASE f.pc = "call" -> f.provider
      [] f.pc = "fbcall" -> f.next_provider
      [] OTHER -> None

\* streak, when a call on provider p has ended with `outcome`
Ended(p, outcome) ==
    [streak EXCEPT ![p] = IF outcome = "ok" THEN 0
                          ELSE Min(@ + 1, circuit_breaker_threshold)]

\* issued, when frame f has just started awaiting a provider call
Issue(f) ==
    IF Awaited(f) = None THEN issued
    ELSE [issued EXCEPT ![Awaited(f)] = @ + 1]

\* generate() up to its first await, without the DRY_RUN short-circuit
GenerateEnterNoDryRun(r, f, preferred_provider, task_type, max_tokens, t) ==
    LET sel == select_provider(r, preferred_provider, task_type, t)
        f0  == [IdleFrame EXCEPT !.preferred_provider = preferred_provider,
                                 !.task_type = task_type,
                                 !.max_tokens = max_tokens,
                                 !.provider = sel.provider,
                                 !.before = r]
    IN  IF sel.provider = None
        THEN [r |-> sel.r, f |-> Returned(f0, NoProviderError)]
        ELSE [r |-> sel.r, f |-> [f0 EXCEPT !.pc = "call"]]

\* generate() up to its first await (lines 404-449)
GenerateEnter(r, f, preferred_provider, task_type, max_tokens, t) ==
    LET sel == select_provider(r, preferred_provider, task_type, t)
        f0  == [IdleFrame EXCEPT !.preferred_provider = preferred_provider,
                                 !.task_type = task_type,
                                 !.max_tokens = max_tokens,
                                 !.provider = sel.provider,
                                 !.before = r]
        r1  == BudgetChecked(sel.r, t)
    IN  IF sel.provider = None
        THEN [r |-> sel.r, f |-> Returned(f0, NoProviderError)]
        ELSE IF sel.r.dry_run
        THEN [r |-> sel.r, f |-> Returned(f0, DryRunSuccess(sel.provider))]
        ELSE IF ~CheckDailyBudget(sel.r, t)
        THEN [r |-> r1, f |-> Returned(f0, BudgetError)]
        ELSE IF r1.max_retries >= 1
        THEN [r |-> r1, f |-> [f0 EXCEPT !.pc = "call"]]
        ELSE [r |-> r1, f |-> FallbackEnter(r1, f0, sel.provider, 1)]

Generate(c, preferred_provider, task_type, max_tokens) ==
    /\ gen[c].pc \in {"idle", "done"}
    /\ ops < MaxOps
    /\ LET e == GenerateEnter(router, gen[c], preferred_provider, task_type,
                              max_tokens, now)
       IN  /\ router' = e.r
           /\ gen' = [gen EXCEPT ![c] = e.f]
           /\ issued' = Issue(e.f)
    /\ ops' = ops + 1
    /\ UNCHANGED <<now, streak>>
    /\ UNCHANGED <<singletonVars, schedulerVars, runnerVars>>

\* a retry loop that records the error at every failed attempt
ProviderReturnedRecordsEach(r, f, outcome, t) ==
    LET f1 == [f EXCEPT !.log = Append(@, [provider |-> f.provider,
                                           phase |-> "primary",
                                           ok |-> outcome = "ok"])]
        r1 == RecordError(r, f.provider, t)
    IN  IF outcome = "ok"
        THEN [r |-> RecordSuccess(r, f.provider, f.max_tokens, t),
              f |-> Returned(f1, PrimarySuccess(f.provider, f.retry,
                                                f.max_tokens))]
        ELSE IF f.retry < r.max_retries - 1
        THEN [r |-> r1,
              f |-> [f1 EXCEPT !.pc = "sleep",
                               !.wake_at = t + retry_delays[
                                   Min(f.retry, Len(retry_delays) - 1) + 1]]]
        ELSE [r |-> r1, f |-> FallbackEnter(r1, f1, f.provider, 1)]

\* a success branch that computes usage_stats from the value read when
\* the invocation started
ProviderReturnedStaleCount(r, f, outcome, t) ==
    LET f1 == [f EXCEPT !.log = Append(@, [provider |-> f.provider,
                                           phase |-> "primary",
                                           ok |-> outcome = "ok"])]
        r1 == RecordError(r, f.provider, t)
        r2 == RecordSuccess(r, f.provider, f.max_tokens, t)
    IN  IF outcome = "ok"
        THEN [r |-> [r2 EXCEPT !.usage_stats[f.provider] =
                                   f.before.usage_stats[f.provider] + 1],
              f |-> Returned(f1, PrimarySuccess(f.provider, f.retry,
                                                f.max_tokens))]
        ELSE IF f.retry < r.max_retries - 1
        THEN [r |-> r,
              f |-> [f1 EXCEPT !.pc = "sleep",
                               !.wake_at = t + retry_delays[
                                   Min(f.retry, Len(retry_delays) - 1) + 1]]]
        ELSE [r |-> r1, f |-> FallbackEnter(r1, f1, f.provider, 1)]

\* the primary provider call ends (lines 451-512); outcome is "ok",
\* "timeout" (asyncio.TimeoutError) or "error" (any other exception)
ProviderReturned(r, f, outcome, t) ==
    LET f1 == [f EXCEPT !.log = Append(@, [provider |-> f.provider,
                                           phase |-> "primary",
                                           ok |-> outcome = "ok"])]
        r1 == RecordError(r, f.provider, t)
    IN  IF outcome = "ok"
        THEN [r |-> RecordSuccess(r, f.provider, f.max_tokens, t),
              f |-> Returned(f1, PrimarySuccess(f.provider, f.retry,
                                                f.max_tokens))]
        ELSE IF f.retry < r.max_retries - 1
        THEN [r |-> r,
              f |-> [f1 EXCEPT !.pc = "sleep",
                               !.wake_at = t + retry_delays[
                                   Min(f.retry, Len(retry_delays) - 1) + 1]]]
        ELSE [r |-> r1, f |-> FallbackEnter(r1, f1, f.provider, 1)]

ProviderCallEnds(c, outcome) ==
    /\ gen[c].pc = "call"
    /\ LET e == ProviderReturned(router, gen[c], outcome, now)
       IN  /\ router' = e.r
           /\ gen' = [gen EXCEPT ![c] = e.f]
           /\ issued' = Issue(e.f)
    /\ streak' = Ended(gen[c].provider, outcome)
    /\ UNCHANGED <<now, ops>>
    /\ UNCHANGED <<singletonVars, schedulerVars, runnerVars>>

\* asyncio.sleep returns, no earlier than the delay: the next attempt starts
SleepEnds(c) ==
    /\ gen[c].pc = "sleep"
    /\ now' = Max(now, gen[c].wake_at)
    /\ gen' = [gen EXCEPT ![c] = [@ EXCEPT !.pc = "call",
                                          !.retry = @ + 1,
                                          !.wake_at = NoneInt]]
    /\ issued' = [issued EXCEPT ![gen[c].provider] = @ + 1]
    /\ UNCHANGED <<router, streak, ops>>
    /\ UNCHANGED <<singletonVars, schedulerVars, runnerVars>>

\* a fallback that gives up at the first fallback call that fails
FallbackGivesUp(r, f, outcome) ==
    LET f1 == [f EXCEPT !.log = Append(@, [provider |-> f.next_provider,
                                           phase |-> "fallback",
                                           ok |-> outcome = "ok"])]
    IN  IF outcome = "ok"
        THEN [r |-> [r EXCEPT !.usage_stats[f.next_provider] = @ + 1],
              f |-> Returned(f1, FallbackSuccess(f.next_provider,
                                                 f.failed_provider))]
        ELSE [r |-> r, f |-> Returned(f1, AllFailedError)]

\* the fallback provider call ends (lines 787-815)
FallbackReturned(r, f, outcome) ==
    LET f1 == [f EXCEPT !.log = Append(@, [provider |-> f.next_provider,
                                           phase |-> "fallback",
                                           ok |-> outcome = "ok"])]
    IN  IF outcome = "ok"
        THEN [r |-> [r EXCEPT !.usage_stats[f.next_provider] = @ + 1],
              f |-> Returned(f1, FallbackSuccess(f.next_provider,
                                                 f.failed_provider))]
        ELSE IF f.available_len > 1
        THEN IF f.depth >= RecursionLimit
             THEN [r |-> r, f |-> Returned(f1, RecursionErrorRaised)]
             ELSE [r |-> r,
                   f |-> FallbackEnter(r, f1, f.next_provider, f.depth + 1)]
        ELSE [r |-> r, f |-> Returned(f1, AllFailedError)]

FallbackCallEnds(c, outcome) ==
    /\ gen[c].pc = "fbcall"
    /\ LET e == FallbackReturned(router, gen[c], outcome)
       IN  /\ router' = e.r
           /\ gen' = [gen EXCEPT ![c] = e.f]
           /\ issued' = Issue(e.f)
    /\ streak' = Ended(gen[c].next_provider, outcome)
    /\ UNCHANGED <<now, ops>>
    /\ UNCHANGED <<singletonVars, schedulerVars, runnerVars>>

----------------------------------------------------------------------------
(* Administrative operations *)

set_priority(r, priority) ==
    LET NotOpenAI(p) == p /= OPENAI
    IN  [r EXCEPT !.priority = IF ~r.enable_openai
                               THEN SelectSeq(priority, NotOpenAI)
                               ELSE priority]

enable_provider(r, provider) ==
    IF provider = OPENAI
    THEN [r EXCEPT !.enable_openai = TRUE,
                   !.priority = IF ~Contains(@, provider)
                                THEN Append(@, provider)
                                ELSE @]
    ELSE r

disable_provider(r, provider) ==
    LET r1 == [r EXCEPT !.priority = RemoveFirst(@, provider)]
    IN  IF provider = OPENAI
        THEN [r1 EXCEPT !.enable_openai = FALSE]
        ELSE r1

SetPriority(priority) ==
    /\ ops < MaxOps
    /\ router' = set_priority(router, priority)
    /\ ops' = ops + 1
    /\ UNCHANGED <<now, gen, issued, streak>>
    /\ UNCHANGED <<singletonVars, schedulerVars, runnerVars>>

EnableProvider(provider) ==
    /\ ops < MaxOps
    /\ router' = enable_provider(router, provider)
    /\ ops' = ops + 1
    /\ UNCHANGED <<now, gen, issued, streak>>
    /\ UNCHANGED <<singletonVars, schedulerVars, runnerVars>>

DisableProvider(provider) ==
    /\ ops < MaxOps
    /\ router' = disable_provider(router, provider)
    /\ ops' = ops + 1
    /\ UNCHANGED <<now, gen, issued, streak>>
    /\ UNCHANGED <<singletonVars, schedulerVars, runnerVars>>

----------------------------------------------------------------------------
(* The clock *)

\* the advances of the clock: up to and just past the rate window, up to
\* and just past the breaker's reset window
TickSteps ==
    {RateWindow, RateWindow + 1,
     circuit_breaker_reset_time, circuit_breaker_reset_time + 1}

\* the clock's advances fall between invocations; within one, time passes
\* by the back-off sleeps
Tick(d) ==
    /\ ops < MaxOps
    /\ \A c \in Callers : gen[c].pc \in {"idle", "done"}
    /\ now' = now + d
    /\ ops' = ops + 1
    /\ UNCHANGED <<router, gen, issued, streak>>
    /\ UNCHANGED <<singletonVars, schedulerVars, runnerVars>>

----------------------------------------------------------------------------
(* The inputs *)

\* the calls of generate(): no hint, the search hint, and each preferred
\* provider that is not first in the default priority
GenerateArgs ==
    {[preferred_provider |-> None, task_type |-> None],
     [preferred_provider |-> None, task_type |-> "search"],
     [preferred_provider |-> GEMINI, task_type |-> None],
     [preferred_provider |-> PERPLEXITY, task_type |-> None],
     [preferred_provider |-> OPENAI, task_type |-> None]}
MaxTokensChoices == {NoneInt}
Outcomes == {"ok", "timeout", "error"}

\* LLM_DAILY_MAX_COST_USD: the default 0.0, 0.004 USD (less than a call of
\* 4096 tokens costs on any provider) and 10 USD
DailyMaxCostChoices == {0, 400000, 1000000000}

ApiKeyChoices ==
    {LLMProvider, {GEMINI, PERPLEXITY, OPENAI}, {PERPLEXITY}}

PriorityChoices ==
    {None, <<OPENAI, PERPLEXITY, GEMINI, ANTHROPIC>>}

SetPriorityChoices ==
    {<<GEMINI, ANTHROPIC>>, <<OPENAI, PERPLEXITY, GEMINI, ANTHROPIC>>}

\* the environments: every combination under DRY_RUN=true (where budget
\* and retries are never read, and stay at their defaults), the budget
\* ceilings under the default configuration, and the live configurations
DryEnvironments ==
    [api_keys : ApiKeyChoices,
     enable_openai : BOOLEAN,
     perplexity_search_only : BOOLEAN,
     dry_run : {TRUE},
     daily_max_cost : {0},
     max_retries : {3},
     priority : PriorityChoices]

BudgetEnvironments ==
    [api_keys : {LLMProvider},
     enable_openai : {FALSE},
     perplexity_search_only : {TRUE},
     dry_run : {FALSE},
     daily_max_cost : DailyMaxCostChoices,
     max_retries : {3},
     priority : {None}]

LiveEnvironments ==
    [api_keys : {{GEMINI, PERPLEXITY, OPENAI}},
     enable_openai : {TRUE},
     perplexity_search_only : {TRUE},
     dry_run : {FALSE},
     daily_max_cost : {1000000000},
     max_retries : {3},
     priority : {None}]

SingleAttemptEnvironments ==
    [api_keys : {LLMProvider},
     enable_openai : {TRUE},
     perplexity_search_only : {FALSE},
     dry_run : {FALSE},
     daily_max_cost : {1000000000},
     max_retries : {1},
     priority : PriorityChoices]

\* the environments whose router has a past (see Pasts)
PastEnvironments ==
    [api_keys : {LLMProvider},
     enable_openai : {TRUE},
     perplexity_search_only : {FALSE},
     dry_run : {FALSE},
     daily_max_cost : {1000000000},
     max_retries : {3},
     priority : {<<OPENAI, PERPLEXITY, GEMINI, ANTHROPIC>>}]

Environments ==
    DryEnvironments \cup BudgetEnvironments \cup LiveEnvironments
        \cup SingleAttemptEnvironments

----------------------------------------------------------------------------
(* The router's past at the start of a run: generate() calls that were     *)
(* made right after construction, computed by the operations above         *)

\* the task type with which provider p is accepted as preferred provider
WarmTaskType(p) == IF p = PERPLEXITY THEN "search" ELSE None

\* the router after generate(preferred_provider=p) whose provider calls
\* all end with `outcome`, and whose fallback calls (if any) all fail
WarmGenerate(r, p, outcome, t) ==
    LET e == GenerateEnter(r, IdleFrame, p, WarmTaskType(p), NoneInt, t)
    IN  IF e.f.pc = "call" /\ e.f.provider = p
        THEN IF outcome = "ok"
             THEN ProviderReturned(e.r, e.f, "ok", t).r
             ELSE RecordError(e.r, p, t)
        ELSE e.r

RECURSIVE WarmGenerates(_, _, _, _, _)
WarmGenerates(r, p, outcome, t, n) ==
    IF n = 0 THEN r
    ELSE LET before == WarmGenerates(r, p, outcome, t, n - 1)
         IN  IF before.dry_run THEN before
             ELSE WarmGenerate(before, p, outcome, t)

\* a past: provider `filled` has served one call less than its
\* requests-per-minute ceiling, and provider `failing` has failed
\* `failures` invocations in a row: none, one less than the breaker's
\* threshold, or as many (the breaker is open)
Pasts ==
    [filled : {PERPLEXITY},
     failing : {OPENAI},
     failures : {0, circuit_breaker_threshold - 1, circuit_breaker_threshold}]

WithPast(r, past, t) ==
    WarmGenerates(
        WarmGenerates(r, past.filled, "ok", t,
                      requests_per_minute(past.filled) - 1),
        past.failing, "error", t, past.failures)

\* a long past: UsageHistoryMaxLen calls of generate(preferred_provider=p)
\* have succeeded since construction, the last RequestTimestampsMaxLen - 1
\* of them at time t and those before at t - 1, so that usage_history and
\* request_timestamps[p] are full
FullBufferPast(r, p, t) ==
    LET early == UsageHistoryMaxLen - RequestTimestampsMaxLen + 1
    IN  [r EXCEPT
            !.usage_stats[p] = UsageHistoryMaxLen,
            !.usage_history =
                [i \in 1..UsageHistoryMaxLen |->
                    [provider |-> p,
                     timestamp |-> IF i <= early THEN t - 1 ELSE t,
                     success |-> TRUE]],
            !.request_timestamps[p] =
                [i \in 1..RequestTimestampsMaxLen |->
                    IF i = 1 THEN t - 1 ELSE t],
            !.daily_cost_used =
                UsageHistoryMaxLen * DefaultEstimatedTokens
                    * cost_per_million(p)]

----------------------------------------------------------------------------
(* get_llm_router() and reset_llm_router(): the module-level singleton     *)

\* the environment LLMRouter() reads when get_llm_router() constructs
SingletonEnvironments ==
    [api_keys : {LLMProvider},
     enable_openai : {FALSE},
     perplexity_search_only : {TRUE},
     dry_run : {FALSE},
     daily_max_cost : {1000000000},
     max_retries : {3},
     priority : {None}]

\* a get_llm_router() that constructs a router at every call
GetConstructsAlways(g, heap, env, t) ==
    [ref |-> Len(heap) + 1, llm_router |-> Len(heap) + 1,
     heap |-> Append(heap, Construct(env, t))]

\* get_llm_router (lines 866-873): the reference returned, the global and
\* the heap after the call
get_llm_router(g, heap, env, t) ==
    IF g = 0
    THEN [ref |-> Len(heap) + 1, llm_router |-> Len(heap) + 1,
          heap |-> Append(heap, Construct(env, t))]
    ELSE [ref |-> g, llm_router |-> g, heap |-> heap]

GetLlmRouter(env) ==
    /\ ops < MaxCalls
    /\ LET e == get_llm_router(llm_router, instances, env, now)
       IN  /\ llm_router' = e.llm_router
           /\ instances' = e.heap
           /\ handles' = Append(handles, [op |-> "get", ref |-> e.ref,
                                          router |-> e.heap[e.ref]])
    /\ ops' = ops + 1
    /\ UNCHANGED <<now, routerVars, schedulerVars, runnerVars>>

\* reset_llm_router (lines 876-879)
ResetLlmRouter ==
    /\ ops < MaxCalls
    /\ llm_router' = 0
    /\ handles' = Append(handles, [op |-> "reset", ref |-> 0,
                                   router |-> None])
    /\ ops' = ops + 1
    /\ UNCHANGED <<instances, now, routerVars, schedulerVars, runnerVars>>

\* a holder of the reference that call h returned runs one generate()
\* through it, whose provider calls all end with `outcome`
UseRouter(h, outcome) ==
    /\ ops < MaxCalls
    /\ h \in 1..Len(handles)
    /\ handles[h].op = "get"
    /\ instances' = [instances EXCEPT ![handles[h].ref] =
                         WarmGenerate(@, GEMINI, outcome, now)]
    /\ ops' = ops + 1
    /\ UNCHANGED <<llm_router, handles, now, routerVars, schedulerVars,
                   runnerVars>>

----------------------------------------------------------------------------
(* SchedulerAgent: schedule_task, _add_to_queue and get_next_task          *)

\* a task: the fields of the dict that the queue order reads, and its id
TaskPriorityChoices == {3, 10}
DeadlineChoices == {NoneInt, 1, 2}

\* what get_next_task() returns for None
NoTask == [obj |-> 0, task_id |-> 0, priority |-> 0, deadline |-> NoneInt]

\* the task ids a caller passes when it chooses them, and the statuses it
\* reports with update_task_status
TaskIdChoices == {1, 2}
StatusChoices == {"completed"}

\* dict[key] = value
Put(dict, key, value) ==
    [k \in DOMAIN dict \cup {key} |-> IF k = key THEN value ELSE dict[k]]

\* a sort key that leaves the priority as it is
SortKeyAscending(task) ==
    <<task.priority,
      IF task.deadline /= NoneInt THEN task.deadline ELSE DatetimeMax>>

\* the key of _add_to_queue's sort (lines 76-79)
SortKey(task) ==
    <<0 - task.priority,
      IF task.deadline /= NoneInt THEN task.deadline ELSE DatetimeMax>>

\* the order of Python tuples
TupleLess(a, b) == a[1] < b[1] \/ (a[1] = b[1] /\ a[2] < b[2])

\* list.sort(key=...): a stable sort, here by insertion from the left
RECURSIVE InsertSorted(_, _)
InsertSorted(sorted, task) ==
    IF sorted = << >> THEN <<task>>
    ELSE IF TupleLess(SortKey(task), SortKey(Head(sorted)))
    THEN <<task>> \o sorted
    ELSE <<Head(sorted)>> \o InsertSorted(Tail(sorted), task)

RECURSIVE SortQueue(_)
SortQueue(queue) ==
    IF queue = << >> THEN << >>
    ELSE InsertSorted(SortQueue(SubSeq(queue, 1, Len(queue) - 1)),
                      queue[Len(queue)])

\* _add_to_queue (lines 71-80)
AddToQueue(queue, task) == SortQueue(Append(queue, task))

\* schedule_task (lines 30-69): a new task dict is registered under
\* task_id and queued
ScheduleTaskAs(task_id, priority, deadline) ==
    /\ ops < MaxCalls
    /\ task_queue' = AddToQueue(task_queue,
                                [obj |-> ops + 1, task_id |-> task_id,
                                 priority |-> priority,
                                 deadline |-> deadline])
    /\ scheduled_tasks' = Put(scheduled_tasks, task_id, ops + 1)
    /\ task_status' = Put(task_status, ops + 1, "scheduled")
    /\ ops' = ops + 1
    /\ UNCHANGED <<assigned, now, routerVars, singletonVars, runnerVars>>

\* schedule_task by a caller that numbers its tasks: the task id is the
\* number of the call
ScheduleTask(priority, deadline) ==
    /\ ops < MaxCalls
    /\ ScheduleTaskAs(ops + 1, priority, deadline)

\* get_next_task (lines 82-91)
GetNextTask ==
    /\ ops < MaxCalls
    /\ IF task_queue = << >>
       THEN /\ task_queue' = task_queue
            /\ task_status' = task_status
            /\ assigned' = [called |-> TRUE, queue |-> task_queue,
                            task |-> NoTask, rest |-> task_queue]
       ELSE /\ task_queue' = Tail(task_queue)
            /\ task_status' = [task_status EXCEPT
                                  ![Head(task_queue).obj] = "assigned"]
            /\ assigned' = [called |-> TRUE, queue |-> task_queue,
                            task |-> Head(task_queue),
                            rest |-> Tail(task_queue)]
    /\ ops' = ops + 1
    /\ UNCHANGED <<scheduled_tasks, now, routerVars, singletonVars,
                   runnerVars>>

\* update_task_status (lines 93-113), without a memory store
UpdateTaskStatus(task_id, status) ==
    /\ ops < MaxCalls
    /\ task_status' = IF task_id \in DOMAIN scheduled_tasks
                      THEN [task_status EXCEPT
                               ![scheduled_tasks[task_id]] = status]
                      ELSE task_status
    /\ ops' = ops + 1
    /\ UNCHANGED <<task_queue, assigned, scheduled_tasks, now, routerVars,
                   singletonVars, runnerVars>>

----------------------------------------------------------------------------
(* Runner: _check_rate_limit, _execute_job and _main_loop                  *)

\* RunnerConfig: RUNNER_MAX_JOBS_PER_MINUTE, RUNNER_MAX_JOBS_PER_HOUR and
\* RUNNER_LOOP_INTERVAL
RunnerConfigs ==
    [max_jobs_per_minute : {2},
     max_jobs_per_hour : {2, 3},
     main_loop_interval : {30, 60}]

\* jobs whose should_run() is true at an iteration, seconds a job takes,
\* seconds by which a sleep overruns
JobsDue == {0, 1, 2}
JobDurations == {0, 1}
SleepOverruns == {0, RunnerHourWindow - 2 * ThrottleSleep}

RECURSIVE SeqMin(_)
SeqMin(ts) ==
    IF Len(ts) = 1 THEN ts[1] ELSE Min(Head(ts), SeqMin(Tail(ts)))

\* a rate limit check that looks at the last minute only
CheckMinuteOnly(cfg, ts, t) ==
    LET Recent(x) == t - x < RunnerMinuteWindow
    IN  ~(Len(SelectSeq(ts, Recent)) >= cfg.max_jobs_per_minute)

\* Runner._check_rate_limit (lines 172-198)
RunnerCheckRateLimit(cfg, ts, t) ==
    LET Recent(x) == t - x < RunnerMinuteWindow
    IN  IF Len(SelectSeq(ts, Recent)) >= cfg.max_jobs_per_minute
        THEN FALSE
        ELSE IF /\ Len(ts) >= cfg.max_jobs_per_hour
                /\ t - SeqMin(ts) < RunnerHourWindow
        THEN FALSE
        ELSE TRUE

\* _main_loop from the top of an iteration to its first await
\* (lines 89-105): the check, then the jobs to run
RunnerIterates(due) ==
    /\ runner_pc = "loop"
    /\ ops < MaxIterations
    /\ IF ~RunnerCheckRateLimit(config, job_timestamps, now)
       THEN /\ runner_pc' = "throttled"
            /\ pending' = 0
            /\ iteration' = [allowed |-> FALSE, executed |-> 0]
       ELSE /\ runner_pc' = IF due > 0 THEN "jobs" ELSE "waiting"
            /\ pending' = due
            /\ iteration' = [allowed |-> TRUE, executed |-> 0]
    /\ ops' = ops + 1
    /\ UNCHANGED <<config, job_timestamps, now, routerVars, singletonVars,
                   schedulerVars>>

\* _execute_job (lines 142-160): job.run() returns after `duration`
\* seconds and the timestamp is recorded
RunnerJobEnds(duration) ==
    /\ runner_pc = "jobs"
    /\ now' = now + duration
    /\ job_timestamps' = DequeAppend(job_timestamps, now',
                                     config.max_jobs_per_hour)
    /\ pending' = pending - 1
    /\ iteration' = [iteration EXCEPT !.executed = @ + 1]
    /\ runner_pc' = IF pending' = 0 THEN "waiting" ELSE "jobs"
    /\ UNCHANGED <<config, ops, routerVars, singletonVars, schedulerVars>>

\* asyncio.sleep(60) after a failed check (line 94), or
\* asyncio.sleep(main_loop_interval) at the end of an iteration (line 124)
RunnerWakes(overrun) ==
    /\ runner_pc \in {"throttled", "waiting"}
    /\ now' = now + overrun
                  + (IF runner_pc = "throttled" THEN ThrottleSleep
                     ELSE config.main_loop_interval)
    /\ runner_pc' = "loop"
    /\ UNCHANGED <<config, job_timestamps, pending, iteration, ops,
                   routerVars, singletonVars, schedulerVars>>

----------------------------------------------------------------------------
(* The initial state of each component *)

DefaultEnvironment ==
    [api_keys |-> LLMProvider, enable_openai |-> FALSE,
     perplexity_search_only |-> TRUE, dry_run |-> TRUE, daily_max_cost |-> 0,
     max_retries |-> 3, priority |-> None]

DefaultRunnerConfig ==
    [max_jobs_per_minute |-> 2, max_jobs_per_hour |-> 3,
     main_loop_interval |-> 60]

\* no generate() is in flight, no provider call was made
RouterAtRest ==
    /\ gen = [c \in Callers |-> IdleFrame]
    /\ issued = [p \in LLMProvider |-> 0]
    /\ streak = [p \in LLMProvider |-> 0]

\* _llm_router = None (line 863)
SingletonInit ==
    /\ llm_router = 0
    /\ instances = << >>
    /\ handles = << >>

\* SchedulerAgent.__init__ (lines 22-28)
SchedulerInit ==
    /\ task_queue = << >>
    /\ assigned = [called |-> FALSE, queue |-> << >>, task |-> NoTask,
                   rest |-> << >>]
    /\ scheduled_tasks = [k \in {} |-> 0]
    /\ task_status = [k \in {} |-> "scheduled"]

\* Runner.__init__ (lines 32-56), at the top of the main loop
RunnerInit ==
    /\ job_timestamps = << >>
    /\ runner_pc = "loop"
    /\ pending = 0
    /\ iteration = [allowed |-> TRUE, executed |-> 0]

----------------------------------------------------------------------------
(* The specification *)

Init ==
    /\ now = StartTime
    /\ \/ \E env \in Environments :
              router = Construct(env, StartTime)
       \/ \E env \in PastEnvironments, past \in Pasts :
              router = WithPast(Construct(env, StartTime), past, StartTime)
    /\ gen = [c \in Callers |-> IdleFrame]
    /\ issued = [p \in LLMProvider |-> 0]
    /\ streak = [p \in LLMProvider |-> 0]
    /\ ops = 0
    /\ SingletonInit
    /\ SchedulerInit
    /\ config = DefaultRunnerConfig
    /\ RunnerInit

Step(c) ==
    \/ \E args \in GenerateArgs, max_tokens \in MaxTokensChoices :
           Generate(c, args.preferred_provider, args.task_type, max_tokens)
    \/ \E outcome \in Outcomes : ProviderCallEnds(c, outcome)
    \/ SleepEnds(c)
    \/ \E outcome \in Outcomes : FallbackCallEnds(c, outcome)

Next == Step(1) \/ \E d \in TickSteps : Tick(d)

Spec == Init /\ [][Next]_vars

----------------------------------------------------------------------------
(* The specification of the administrative operations: construction       *)
(* followed by set_priority, enable_provider and disable_provider calls   *)

\* LLM_PRIORITY or the priority argument: absent, or naming OpenAI twice
AdminPriorityChoices ==
    {None, <<OPENAI, ANTHROPIC, OPENAI>>}

AdminEnvironments ==
    [api_keys : {LLMProvider, {GEMINI, PERPLEXITY, OPENAI}},
     enable_openai : BOOLEAN,
     perplexity_search_only : {TRUE},
     dry_run : {TRUE},
     daily_max_cost : {0},
     max_retries : {3},
     priority : AdminPriorityChoices]

InitAdmin ==
    /\ now = StartTime
    /\ \E env \in AdminEnvironments : router = Construct(env, StartTime)
    /\ gen = [c \in Callers |-> IdleFrame]
    /\ issued = [p \in LLMProvider |-> 0]
    /\ streak = [p \in LLMProvider |-> 0]
    /\ ops = 0
    /\ SingletonInit
    /\ SchedulerInit
    /\ config = DefaultRunnerConfig
    /\ RunnerInit

NextAdmin ==
    \/ \E priority \in SetPriorityChoices : SetPriority(priority)
    \/ \E provider \in LLMProvider : EnableProvider(provider)
    \/ \E provider \in LLMProvider : DisableProvider(provider)

SpecAdmin == InitAdmin /\ [][NextAdmin]_vars

----------------------------------------------------------------------------
(* The specification of the singleton accessor *)

InitSingleton ==
    /\ now = StartTime
    /\ router = Construct(DefaultEnvironment, StartTime)
    /\ RouterAtRest
    /\ ops = 0
    /\ SingletonInit
    /\ SchedulerInit
    /\ config = DefaultRunnerConfig
    /\ RunnerInit

NextSingleton ==
    \/ \E env \in SingletonEnvironments : GetLlmRouter(env)
    \/ ResetLlmRouter
    \/ \E h \in 1..MaxCalls, outcome \in {"ok", "error"} :
           UseRouter(h, outcome)

SpecSingleton == InitSingleton /\ [][NextSingleton]_vars

----------------------------------------------------------------------------
(* The specification of the scheduler's queue *)

InitScheduler ==
    /\ now = StartTime
    /\ router = Construct(DefaultEnvironment, StartTime)
    /\ RouterAtRest
    /\ ops = 0
    /\ SingletonInit
    /\ SchedulerInit
    /\ config = DefaultRunnerConfig
    /\ RunnerInit

NextScheduler ==
    \/ \E priority \in TaskPriorityChoices, deadline \in DeadlineChoices :
           ScheduleTask(priority, deadline)
    \/ GetNextTask

SpecScheduler == InitScheduler /\ [][NextScheduler]_vars

----------------------------------------------------------------------------
(* The specification of the scheduler's registry: the caller chooses the   *)
(* task ids and reports statuses                                           *)

NextRegistry ==
    \/ \E task_id \in TaskIdChoices, priority \in TaskPriorityChoices :
           ScheduleTaskAs(task_id, priority, NoneInt)
    \/ GetNextTask
    \/ \E task_id \in TaskIdChoices, status \in StatusChoices :
           UpdateTaskStatus(task_id, status)

SpecRegistry == InitScheduler /\ [][NextRegistry]_vars

----------------------------------------------------------------------------
(* The specification of the runner's main loop *)

InitRunner ==
    /\ now = StartTime
    /\ router = Construct(DefaultEnvironment, StartTime)
    /\ RouterAtRest
    /\ ops = 0
    /\ SingletonInit
    /\ SchedulerInit
    /\ config \in RunnerConfigs
    /\ RunnerInit

NextRunner ==
    \/ \E due \in JobsDue : RunnerIterates(due)
    \/ \E duration \in JobDurations : RunnerJobEnds(duration)
    \/ \E overrun \in SleepOverruns : RunnerWakes(overrun)

SpecRunner == InitRunner /\ [][NextRunner]_vars

----------------------------------------------------------------------------
(* The specification of a router in long use: its buffers are full *)

LongUseEnvironment ==
    [api_keys |-> LLMProvider, enable_openai |-> FALSE,
     perplexity_search_only |-> TRUE, dry_run |-> FALSE,
     daily_max_cost |-> 1000000000, max_retries |-> 3, priority |-> None]

InitLongUse ==
    /\ now = StartTime
    /\ \/ router = Construct(LongUseEnvironment, StartTime)
       \/ router = FullBufferPast(Construct(LongUseEnvironment, StartTime - 1),
                                  GEMINI, StartTime)
    /\ RouterAtRest
    /\ ops = 0
    /\ SingletonInit
    /\ SchedulerInit
    /\ config = DefaultRunnerConfig
    /\ RunnerInit

SpecLongUse == InitLongUse /\ [][Next]_vars

----------------------------------------------------------------------------
(* The specification of concurrent invocations: two coroutines call        *)
(* generate() on the same router and interleave at their awaits            *)

\* the routers shared: one whose first provider is one failure short of
\* the breaker's threshold, and one per budget ceiling
ConcurrentRouters ==
    {WithPast(Construct(env, StartTime), past, StartTime) :
        env \in PastEnvironments,
        past \in {q \in Pasts :
                     q.failures = circuit_breaker_threshold - 1}}
    \cup {Construct(env, StartTime) :
             env \in {e \in BudgetEnvironments : e.daily_max_cost > 0}}

InitConcurrent ==
    /\ now = StartTime
    /\ router \in ConcurrentRouters
    /\ RouterAtRest
    /\ ops = 0
    /\ SingletonInit
    /\ SchedulerInit
    /\ config = DefaultRunnerConfig
    /\ RunnerInit

\* each coroutine calls generate() once
StepOnce(c) ==
    \/ \E args \in GenerateArgs, max_tokens \in MaxTokensChoices :
           /\ gen[c].pc = "idle"
           /\ Generate(c, args.preferred_provider, args.task_type, max_tokens)
    \/ \E outcome \in Outcomes : ProviderCallEnds(c, outcome)
    \/ SleepEnds(c)
    \/ \E outcome \in Outcomes : FallbackCallEnds(c, outcome)

NextConcurrent == \E c \in Callers : StepOnce(c)

SpecConcurrent == InitConcurrent /\ [][NextConcurrent]_vars

----------------------------------------------------------------------------
(* The specification of disable_provider: a router constructed with the    *)
(* default priority list, on which providers are disabled between the      *)
(* invocations of generate()                                               *)

DisableEnvironments ==
    {env \in LiveEnvironments \cup SingleAttemptEnvironments :
        env.priority = None}

InitDisable ==
    /\ now = StartTime
    /\ \E env \in DisableEnvironments : router = Construct(env, StartTime)
    /\ RouterAtRest
    /\ ops = 0
    /\ SingletonInit
    /\ SchedulerInit
    /\ config = DefaultRunnerConfig
    /\ RunnerInit

NextDisable ==
    \/ \E provider \in LLMProvider : DisableProvider(provider)
    \/ Step(1)

SpecDisable == InitDisable /\ [][NextDisable]_vars

----------------------------------------------------------------------------
(* Shared vocabulary of the properties *)

\* the breaker of p is closed: it never opened, or more than the reset
\* window has elapsed since it did
BreakerClosedAt(p) ==
    \/ router.circuit_breaker_timers[p] = NoneInt
    \/ now - router.circuit_breaker_timers[p] > circuit_breaker_reset_time

\* the timestamps of p that are not older than the rate window
CountRecent(p) ==
    Cardinality({i \in 1..Len(router.request_timestamps[p]) :
                    now - router.request_timestamps[p][i] <= RateWindow})

AtQuota(p) == CountRecent(p) >= requests_per_minute(p)

TaskTypes == {None, "search", "chat"}
PreferredArgs == LLMProvider \cup {None}

\* the search-only restriction excludes p for this task type
SearchOnlyExcluded(p, task_type) ==
    p = PERPLEXITY /\ router.perplexity_search_only /\ task_type /= "search"

\* the opt-in rule rejects p as preferred provider
OptInRejected(p) == p = OPENAI /\ ~router.enable_openai

\* the preferred provider passes the opt-in and search-only rules and is
\* structurally available
PreferredAccepted(preferred_provider, task_type) ==
    /\ preferred_provider \in LLMProvider
    /\ router.providers_config[preferred_provider].enabled
    /\ ~OptInRejected(preferred_provider)
    /\ ~SearchOnlyExcluded(preferred_provider, task_type)

Finished(c) == gen[c].pc = "done"

----------------------------------------------------------------------------
(* C1: dry-run isolation *)

\* C1 as stated: with dry_run true no provider call is ever issued,
\* daily_cost_used stays where construction put it (0), no timestamp is
\* ever appended, and every generate() that finds a structurally available
\* provider in the priority list returns success at cost "$0.00".
C1_DryRunAlwaysSucceeds ==
    router.dry_run =>
        /\ \A p \in LLMProvider : issued[p] = 0
        /\ router.daily_cost_used = 0
        /\ \A p \in LLMProvider : router.request_timestamps[p] = << >>
        /\ \A c \in Callers :
               Finished(c) /\ get_available_providers(router) /= << >> =>
                   /\ gen[c].result.status = "success"
                   /\ gen[c].result.cost = 0

\* the invocation of frame f finds a provider under dry-run: its preferred
\* provider is accepted, or the priority list holds a structurally
\* available provider that the search-only restriction does not exclude
DryRunSelects(f) ==
    \/ PreferredAccepted(f.preferred_provider, f.task_type)
    \/ \E i \in 1..Len(router.priority) :
           /\ Enabled(router, router.priority[i])
           /\ ~SearchOnlyExcluded(router.priority[i], f.task_type)

\* C1 (amended): with dry_run true no provider call is ever issued,
\* daily_cost_used stays 0, no timestamp is ever appended, and generate()
\* returns success at cost "$0.00" exactly when its preferred provider is
\* accepted or the priority list holds a structurally available provider
\* that the search-only restriction does not exclude for the task type;
\* otherwise it returns the "No available LLM provider" error.
C1_DryRunIsolation ==
    router.dry_run =>
        /\ \A p \in LLMProvider : issued[p] = 0
        /\ router.daily_cost_used = 0
        /\ \A p \in LLMProvider : router.request_timestamps[p] = << >>
        /\ \A c \in Callers :
               /\ gen[c].pc \in {"idle", "done"}
               /\ gen[c].log = << >>
               /\ Finished(c) =>
                      IF DryRunSelects(gen[c])
                      THEN /\ gen[c].result.status = "success"
                           /\ gen[c].result.dry_run
                           /\ gen[c].result.cost = 0
                           /\ gen[c].result.provider \in LLMProvider
                      ELSE /\ gen[c].result.status = "error"
                           /\ gen[c].result.error = "no_provider"

\* a second dry-run generate() in a row has returned its mock success
C1_Witness ==
    /\ router.dry_run
    /\ ops = MaxOps
    /\ Finished(1)
    /\ gen[1].result.status = "success"
    /\ gen[1].result.cost = 0
    /\ gen[1].preferred_provider = None

----------------------------------------------------------------------------
(* C2, C3: the fallback chain *)

\* the providers of the calls of log that failed
FailedIn(log) == {log[i].provider : i \in {j \in 1..Len(log) : ~log[j].ok}}

\* the calls of frame f so far: the first provider of the priority list
\* has failed every attempt of the retry loop, then the second has failed
\* its fallback call, no other call has failed, and the three first
\* providers of the list are distinct and structurally available
ChainAB(f) ==
    LET prio == f.before.priority
        m    == f.before.max_retries
    IN  /\ Len(f.log) >= 1
        /\ Len(prio) >= 3
        /\ Cardinality({prio[1], prio[2], prio[3]}) = 3
        /\ \A i \in 1..3 : Enabled(f.before, prio[i])
        /\ Len(f.log) >= m + 1
        /\ \A i \in 1..m : f.log[i] = [provider |-> prio[1],
                                       phase |-> "primary", ok |-> FALSE]
        /\ f.log[m + 1] = [provider |-> prio[2], phase |-> "fallback",
                           ok |-> FALSE]
        /\ FailedIn(f.log) \subseteq {prio[1], prio[2]}

\* C2 as stated: once A = priority[1] has failed every retry and
\* B = priority[2] its fallback call, the next call goes to C = priority[3],
\* and if C succeeds generate() returns success with provider C, having
\* incremented usage_stats[C] once and no other usage_stats entry.
C2_FallbackChainsToThird ==
    \A c \in Callers :
        ChainAB(gen[c]) =>
            LET C == gen[c].before.priority[3]
            IN  /\ gen[c].pc = "fbcall" => gen[c].next_provider = C
                /\ Finished(c) =>
                       /\ gen[c].result.status = "success"
                       /\ gen[c].result.provider = C
                       /\ router.usage_stats =
                              [gen[c].before.usage_stats EXCEPT ![C] = @ + 1]

----------------------------------------------------------------------------
(* C4, C5, C6: the circuit breaker *)

\* C4 as stated: once provider X has had circuit_breaker_threshold provider
\* calls fail in a row, with no successful call of X in between, the
\* breaker of X is open (its open time is recorded) and a selection with no
\* preference, X being first in priority, does not return X.
C4_BreakerOpensAfterFiveCallFailures ==
    \A p \in LLMProvider :
        streak[p] >= circuit_breaker_threshold =>
            /\ router.circuit_breaker_timers[p] /= NoneInt
            /\ router.priority /= << >> /\ router.priority[1] = p =>
                   select_provider(router, None, None, now).provider /= p

\* C5: when the breaker of X is open and more than the reset window has
\* elapsed since it opened, the breaker check closes it (timer cleared,
\* error count 0) and X is returned when preferred and accepted; while
\* the elapsed time does not exceed the window, no selection returns X and
\* no selection changes its error count or its timer.  A provider that
\* generate() selected although its breaker had opened before was selected
\* only after the window had elapsed.
C5_BreakerAutoCloses ==
    /\ \A p \in LLMProvider :
           router.circuit_breaker_timers[p] /= NoneInt =>
               IF now - router.circuit_breaker_timers[p]
                      > circuit_breaker_reset_time
               THEN /\ ~IsCircuitBreakerOpen(router, p, now)
                    /\ LET checked == BreakerChecked(router, {p}, now)
                       IN  /\ checked.circuit_breaker_timers[p] = NoneInt
                           /\ checked.error_counts[p] = 0
                    /\ \A task_type \in TaskTypes :
                           PreferredAccepted(p, task_type) =>
                               LET sel == select_provider(router, p,
                                                          task_type, now)
                               IN  /\ sel.provider = p
                                   /\ sel.r.error_counts[p] = 0
                                   /\ sel.r.circuit_breaker_timers[p]
                                          = NoneInt
               ELSE /\ IsCircuitBreakerOpen(router, p, now)
                    /\ BreakerChecked(router, {p}, now) = router
                    /\ \A preferred_provider \in PreferredArgs,
                          task_type \in TaskTypes :
                           LET sel == select_provider(router,
                                          preferred_provider, task_type, now)
                           IN  /\ sel.provider /= p
                               /\ sel.r.error_counts[p]
                                      = router.error_counts[p]
                               /\ sel.r.circuit_breaker_timers[p]
                                      = router.circuit_breaker_timers[p]
    /\ \A c \in Callers :
           gen[c].pc /= "idle" /\ gen[c].provider /= None =>
               LET opened ==
                       gen[c].before.circuit_breaker_timers[gen[c].provider]
               IN  opened /= NoneInt =>
                       now - opened > circuit_breaker_reset_time

\* generate() has selected the provider whose breaker was open at the
\* start of the run, after the reset window had elapsed, and the check
\* has cleared its timer and its error count
C5_Witness ==
    /\ gen[1].pc = "call"
    /\ gen[1].provider = OPENAI
    /\ gen[1].before.circuit_breaker_timers[OPENAI] = StartTime
    /\ gen[1].before.error_counts[OPENAI] = circuit_breaker_threshold
    /\ now = StartTime + circuit_breaker_reset_time + 1
    /\ router.circuit_breaker_timers[OPENAI] = NoneInt
    /\ router.error_counts[OPENAI] = 0

\* C6 as stated: while the breaker of X is open, X is not returned by
\* select_provider whatever the preferred provider and the task type, and
\* X is not the provider of a fallback call.
C6_OpenBreakerExcludedEverywhere ==
    \A p \in LLMProvider :
        IsCircuitBreakerOpen(router, p, now) =>
            /\ \A preferred_provider \in PreferredArgs,
                  task_type \in TaskTypes :
                   select_provider(router, preferred_provider, task_type,
                                   now).provider /= p
            /\ \A c \in Callers :
                   gen[c].pc = "fbcall" => gen[c].next_provider /= p

----------------------------------------------------------------------------
(* C7: the rate limit *)

\* the timestamps of p that the rate limit check keeps
RecentTimestamps(p) ==
    LET Recent(ts) == now - ts <= RateWindow
    IN  SelectSeq(router.request_timestamps[p], Recent)

\* C7 as stated: whenever request_timestamps[P] holds at least
\* requests_per_minute(P) entries not older than 60 seconds, no selection,
\* whatever its preferred provider and task type, returns P; once the
\* entries are older than 60 seconds the check prunes them and passes P.
C7_RateLimitExcludesOnEveryPath ==
    \A p \in LLMProvider :
        IF AtQuota(p)
        THEN \A preferred_provider \in PreferredArgs,
                task_type \in TaskTypes :
                 select_provider(router, preferred_provider, task_type,
                                 now).provider /= p
        ELSE /\ CheckRateLimit(router, p, now)
             /\ RateChecked(router, {p}, now).request_timestamps[p]
                    = RecentTimestamps(p)

\* the rate limit check and the priority-order pass, provider by provider
RateCheckExcludes ==
    \A p \in LLMProvider :
        IF AtQuota(p)
        THEN /\ ~CheckRateLimit(router, p, now)
             /\ \A task_type \in TaskTypes :
                    SelectByPriority(router, task_type, now).provider /= p
        ELSE /\ CheckRateLimit(router, p, now)
             /\ RateChecked(router, {p}, now).request_timestamps[p]
                    = RecentTimestamps(p)

\* C7 (amended): whenever request_timestamps[P] holds at least
\* requests_per_minute(P) entries not older than 60 seconds, the rate limit
\* check fails for P and the priority-order pass does not return P: a
\* selection returns P only as its accepted preferred provider or, P being
\* the search provider, for a search task.  Once fewer entries than that
\* are not older than 60 seconds, the check prunes the older ones and
\* passes P.
C7_RateLimitExcludesOnPriorityPass ==
    /\ RateCheckExcludes
    /\ \A p \in LLMProvider :
           AtQuota(p) =>
               \A preferred_provider \in PreferredArgs,
                  task_type \in TaskTypes :
                   select_provider(router, preferred_provider, task_type,
                                   now).provider = p =>
                       \/ /\ preferred_provider = p
                          /\ PreferredAccepted(p, task_type)
                       \/ p = PERPLEXITY /\ task_type = "search"

\* the search provider reached its ceiling, more than 60 seconds have
\* passed, and the priority-order pass returns it again once it has
\* pruned the timestamps
C7_Witness ==
    /\ Len(router.request_timestamps[PERPLEXITY])
           >= requests_per_minute(PERPLEXITY)
    /\ CountRecent(PERPLEXITY) = 0
    /\ Finished(1)
    /\ gen[1].provider = PERPLEXITY
    /\ LET sel == select_provider(router, None, None, now)
       IN  /\ sel.provider = PERPLEXITY
           /\ sel.r.request_timestamps[PERPLEXITY] = << >>

----------------------------------------------------------------------------
(* C8: the budget gate *)

\* the cost _record_cost adds for one call of frame f on its provider
CostOfCall(f) == EstimatedTokens(f.max_tokens) * cost_per_million(f.provider)

\* C8 as stated: with dry_run false and daily_max_cost below the estimated
\* cost of one call, generate() returns an error and no provider call is
\* attempted: the call count of every provider stays 0.
C8_BudgetGateBlocksBeforeAnyCall ==
    \A c \in Callers :
        (/\ gen[c].pc /= "idle"
         /\ gen[c].provider /= None
         /\ ~router.dry_run
         /\ router.daily_max_cost < CostOfCall(gen[c])) =>
            /\ Finished(c)
            /\ gen[c].result.status = "error"
            /\ gen[c].log = << >>
            /\ \A p \in LLMProvider : issued[p] = 0

----------------------------------------------------------------------------
(* C9, C10: the selection order *)

\* p passes every gate of the priority-order pass for a call with no task
\* type
Eligible(p) ==
    /\ router.providers_config[p].enabled
    /\ BreakerClosedAt(p)
    /\ ~AtQuota(p)
    /\ ~(p = PERPLEXITY /\ router.perplexity_search_only)

\* C9: with no preferred provider and no task type, select_provider
\* returns the first provider of the priority list that is structurally
\* available, has its breaker closed, is under its rate limit and is not
\* the search-only provider under the search-only restriction; it returns
\* None only when the list holds no such provider.
C9_PriorityRespected ==
    LET prio == router.priority
        sel  == select_provider(router, None, None, now).provider
        eligible == {i \in 1..Len(prio) : Eligible(prio[i])}
    IN  IF eligible = {}
        THEN sel = None
        ELSE \E i \in eligible :
                 /\ \A j \in eligible : i <= j
                 /\ sel = prio[i]

\* priority [A, B, C, ...], all structurally available, the breaker of A
\* open and B at its rate limit: the selection returns C
C9_Witness ==
    /\ Len(router.priority) >= 3
    /\ \A i \in 1..3 : router.providers_config[router.priority[i]].enabled
    /\ ~BreakerClosedAt(router.priority[1])
    /\ BreakerClosedAt(router.priority[2])
    /\ AtQuota(router.priority[2])
    /\ Eligible(router.priority[3])
    /\ select_provider(router, None, None, now).provider = router.priority[3]

\* C10: a preferred provider that is structurally available, whose
\* breaker is closed, and that neither the opt-in rule nor the search-only
\* rule rejects, is the provider select_provider returns, whatever the
\* priority order; generate() then calls that provider first.
C10_PreferenceOverride ==
    /\ \A preferred_provider \in LLMProvider, task_type \in TaskTypes :
           (/\ PreferredAccepted(preferred_provider, task_type)
            /\ BreakerClosedAt(preferred_provider)) =>
               select_provider(router, preferred_provider, task_type,
                               now).provider = preferred_provider
    /\ \A c \in Callers :
           (/\ gen[c].pc /= "idle"
            /\ gen[c].preferred_provider /= None
            /\ gen[c].before.providers_config[
                   gen[c].preferred_provider].enabled
            /\ gen[c].before.circuit_breaker_timers[
                   gen[c].preferred_provider] = NoneInt
            /\ ~(gen[c].preferred_provider = OPENAI
                 /\ ~gen[c].before.enable_openai)
            /\ ~(/\ gen[c].preferred_provider = PERPLEXITY
                 /\ gen[c].before.perplexity_search_only
                 /\ gen[c].task_type /= "search")) =>
               gen[c].provider = gen[c].preferred_provider

\* generate(preferred_provider = gemini) has called Gemini although
\* Anthropic, first in priority, was eligible
C10_Witness ==
    /\ gen[1].pc = "call"
    /\ gen[1].preferred_provider = GEMINI
    /\ gen[1].provider = GEMINI
    /\ issued[GEMINI] = 1
    /\ router.priority[1] = ANTHROPIC
    /\ Eligible(ANTHROPIC)

----------------------------------------------------------------------------
(* C11: search affinity *)

\* C11: for a search task whose preferred provider is absent, rejected or
\* breaker-open, select_provider returns the search provider whenever it
\* is in the priority list, structurally available and its breaker is
\* closed, wherever it stands in the priority list and whatever the rate
\* limits and the other providers' state; generate() then calls it first.
C11_SearchAffinity ==
    /\ (/\ Contains(router.priority, PERPLEXITY)
        /\ router.providers_config[PERPLEXITY].enabled
        /\ BreakerClosedAt(PERPLEXITY)) =>
           \A preferred_provider \in PreferredArgs :
               ~(/\ PreferredAccepted(preferred_provider, "search")
                 /\ BreakerClosedAt(preferred_provider)) =>
                   select_provider(router, preferred_provider, "search",
                                   now).provider = PERPLEXITY
    /\ \A c \in Callers :
           (/\ gen[c].pc /= "idle"
            /\ gen[c].task_type = "search"
            /\ gen[c].preferred_provider = None
            /\ Contains(gen[c].before.priority, PERPLEXITY)
            /\ gen[c].before.providers_config[PERPLEXITY].enabled
            /\ gen[c].before.circuit_breaker_timers[PERPLEXITY] = NoneInt) =>
               gen[c].provider = PERPLEXITY

\* generate(task_type = "search") has called the search provider, second
\* in priority behind an eligible provider and one request short of its
\* rate limit
C11_Witness ==
    /\ gen[1].pc = "call"
    /\ gen[1].task_type = "search"
    /\ gen[1].provider = PERPLEXITY
    /\ issued[PERPLEXITY] = 1
    /\ router.priority[1] = OPENAI
    /\ router.priority[2] = PERPLEXITY
    /\ Eligible(OPENAI)
    /\ Len(router.request_timestamps[PERPLEXITY])
           = requests_per_minute(PERPLEXITY) - 1

----------------------------------------------------------------------------
(* C12, C19, C20: the opt-in gate under the administrative operations *)

\* C12 as stated: in every state reached by construction, set_priority,
\* enable_provider and disable_provider in which enable_openai is false,
\* OpenAI is not in get_available_providers() and no select_provider call,
\* whatever its preferred provider and task type, returns OpenAI.
C12_OptInGating ==
    ~router.enable_openai =>
        /\ ~Contains(get_available_providers(router), OPENAI)
        /\ \A preferred_provider \in PreferredArgs, task_type \in TaskTypes :
               select_provider(router, preferred_provider, task_type,
                               now).provider /= OPENAI

\* C19 as stated: in every state reached by construction (with any
\* priority list), set_priority, enable_provider and disable_provider, if
\* enable_openai is false then OpenAI occurs nowhere in the priority list.
C19_GatedProviderNotInPriority ==
    ~router.enable_openai => ~Contains(router.priority, OPENAI)

\* C20 as stated: at every point a provider is structurally available iff
\* its credential is present and it is not OpenAI or enable_openai is
\* currently set; OpenAI, once opted in with its credential present and in
\* the priority list, is in get_available_providers() and is returned
\* when preferred.
C20_AvailabilityTracksOptIn ==
    /\ \A p \in LLMProvider :
           router.providers_config[p].enabled <=>
               /\ router.providers_config[p].api_key
               /\ p /= OPENAI \/ router.enable_openai
    /\ (/\ router.enable_openai
        /\ router.providers_config[OPENAI].api_key
        /\ Contains(router.priority, OPENAI)) =>
           /\ Contains(get_available_providers(router), OPENAI)
           /\ select_provider(router, OPENAI, None, now).provider = OPENAI

----------------------------------------------------------------------------
(* C13: failure is surfaced only after exhaustion *)

\* the providers called during the invocation of frame f
CalledIn(f) == {f.log[i].provider : i \in 1..Len(f.log)}

\* C13: whenever generate() returns the "All providers failed" error,
\* every provider of get_available_providers() was called at least once
\* during that invocation and every call of the invocation failed.
C13_FailureOnlyAfterExhaustion ==
    \A c \in Callers :
        Finished(c) /\ gen[c].result.error = "all_failed" =>
            LET available == get_available_providers(router)
            IN  /\ \A i \in 1..Len(available) :
                       available[i] \in CalledIn(gen[c])
                /\ \A j \in 1..Len(gen[c].log) : ~gen[c].log[j].ok

\* generate() has returned "All providers failed" with two providers
\* available, after the retries on the first and one fallback call
C13_Witness ==
    /\ Finished(1)
    /\ gen[1].result.status = "error"
    /\ gen[1].result.error = "all_failed"
    /\ Len(get_available_providers(router)) = 2
    /\ Len(gen[1].log) = router.max_retries + 1

----------------------------------------------------------------------------
(* C14: the router is a lazily created singleton *)

\* the i-th accessor call is a get_llm_router() that found no instance:
\* the first call, or the first one after a reset_llm_router()
GetAfterReset(i) ==
    /\ handles[i].op = "get"
    /\ \A k \in 1..(i - 1) :
           handles[k].op = "get" =>
               \E m \in (k + 1)..(i - 1) : handles[m].op = "reset"

\* usage_stats, error_counts, daily_cost_used and the breaker timers as
\* __init__ leaves them
CountersInitial(r) ==
    /\ \A p \in LLMProvider :
           /\ r.usage_stats[p] = 0
           /\ r.error_counts[p] = 0
           /\ r.circuit_breaker_timers[p] = NoneInt
    /\ r.daily_cost_used = 0

\* C14: get_llm_router() calls with no reset_llm_router() between them
\* return the same instance, so what one reference accumulates is what
\* the others see; the first get_llm_router() and the first one after a
\* reset return an instance no earlier call returned, with usage_stats,
\* error_counts, daily_cost_used and breaker timers at initial values.
C14_Singleton ==
    /\ \A i, j \in 1..Len(handles) :
           (/\ i < j
            /\ handles[i].op = "get"
            /\ handles[j].op = "get"
            /\ \A m \in (i + 1)..(j - 1) : handles[m].op /= "reset") =>
               handles[i].ref = handles[j].ref
    /\ \A i \in 1..Len(handles) :
           GetAfterReset(i) =>
               /\ \A k \in 1..(i - 1) :
                      handles[k].op = "get" =>
                          handles[k].ref /= handles[i].ref
               /\ CountersInitial(handles[i].router)
    /\ \A i \in 1..Len(handles) :
           handles[i].op = "get" => handles[i].ref \in 1..Len(instances)

\* two get_llm_router() calls returned the first instance, which was used
\* in between; after a reset a third call returned a second instance
C14_Witness ==
    /\ Len(handles) = 4
    /\ handles[1].op = "get" /\ handles[2].op = "get"
    /\ handles[3].op = "reset" /\ handles[4].op = "get"
    /\ handles[1].ref = handles[2].ref
    /\ ~CountersInitial(handles[2].router)
    /\ ~CountersInitial(instances[handles[1].ref])
    /\ handles[4].ref /= handles[1].ref
    /\ llm_router = handles[4].ref

----------------------------------------------------------------------------
(* C15: the scheduler's queue hands out the best task first *)

\* task a is to be handed out no later than task b: a higher priority, or
\* the same priority and a deadline no later than b's, no deadline being
\* later than every deadline
BetterOrEqual(a, b) ==
    \/ a.priority > b.priority
    \/ /\ a.priority = b.priority
       /\ \/ b.deadline = NoneInt
          \/ a.deadline /= NoneInt /\ a.deadline <= b.deadline

\* sequence `rest` is sequence `queue` without its k-th element
RemovedAt(queue, k, rest) ==
    /\ Len(rest) = Len(queue) - 1
    /\ \A i \in 1..Len(rest) :
           rest[i] = IF i < k THEN queue[i] ELSE queue[i + 1]

\* C15: after any sequence of schedule_task and get_next_task calls,
\* get_next_task on an empty queue returns None and leaves it empty;
\* otherwise it returns a queued task whose priority is the highest and,
\* among those of that priority, whose deadline is the earliest (tasks
\* without a deadline last), and removes exactly that task.
C15_BestTaskFirst ==
    assigned.called =>
        IF assigned.queue = << >>
        THEN assigned.task = NoTask /\ assigned.rest = << >>
        ELSE /\ \E k \in 1..Len(assigned.queue) :
                    /\ assigned.queue[k] = assigned.task
                    /\ RemovedAt(assigned.queue, k, assigned.rest)
             /\ \A i \in 1..Len(assigned.queue) :
                    BetterOrEqual(assigned.task, assigned.queue[i])

\* get_next_task returned a task with a deadline while a task of the same
\* priority without a deadline, scheduled earlier, and a task of lower
\* priority, scheduled first, were queued
C15_Witness ==
    /\ assigned.called
    /\ assigned.task.deadline /= NoneInt
    /\ \E i, j \in 1..Len(assigned.queue) :
           /\ assigned.queue[i].priority = assigned.task.priority
           /\ assigned.queue[i].deadline = NoneInt
           /\ assigned.queue[i].task_id < assigned.task.task_id
           /\ assigned.queue[j].priority < assigned.task.priority
           /\ assigned.queue[j].task_id < assigned.queue[i].task_id

----------------------------------------------------------------------------
(* C16: the runner's rate limit *)

\* the number of recorded job timestamps younger than `window` seconds
YoungerThan(ts, t, window) ==
    Cardinality({i \in 1..Len(ts) : t - ts[i] < window})

\* C16: _check_rate_limit returns False whenever at least
\* max_jobs_per_minute recorded timestamps are younger than 60 seconds, or
\* the per-hour buffer is full and its oldest entry is younger than 3600
\* seconds; and in a main-loop iteration whose check returned False no
\* job is executed.
C16_RunnerRateLimit ==
    /\ (\/ YoungerThan(job_timestamps, now, 60) >= config.max_jobs_per_minute
        \/ /\ Len(job_timestamps) = config.max_jobs_per_hour
           /\ YoungerThan(job_timestamps, now, 3600) = Len(job_timestamps)) =>
           ~RunnerCheckRateLimit(config, job_timestamps, now)
    /\ ~iteration.allowed =>
           /\ iteration.executed = 0
           /\ pending = 0
           /\ runner_pc /= "jobs"

\* an iteration was refused by the per-hour rule alone: the buffer is
\* full of jobs of the last hour, fewer than max_jobs_per_minute of them
\* of the last minute, and the loop sleeps without having run a job
C16_Witness ==
    /\ runner_pc = "throttled"
    /\ ~iteration.allowed
    /\ iteration.executed = 0
    /\ Len(job_timestamps) = config.max_jobs_per_hour
    /\ YoungerThan(job_timestamps, now, 60) < config.max_jobs_per_minute
    /\ YoungerThan(job_timestamps, now, 3600) = Len(job_timestamps)

----------------------------------------------------------------------------
(* C17: what a successful fallback call records *)

\* C17 as stated: a fallback call that succeeds leaves the router as
\* _record_success and the cost accounting of a successful primary call
\* leave it (usage_stats, usage_history, request_timestamps,
\* daily_cost_used, error_counts of the succeeding provider), and the
\* result's fallback_from is the provider select_provider returned for
\* this invocation.
C17_FallbackRecordsLikePrimary ==
    [][\A c \in Callers :
           (/\ gen[c].pc = "fbcall"
            /\ gen'[c].pc = "done"
            /\ gen'[c].result.status = "success") =>
               /\ router' = RecordSuccess(router, gen[c].next_provider,
                                          gen[c].max_tokens, now)
               /\ gen'[c].result.fallback_from = gen[c].provider]_vars

----------------------------------------------------------------------------
(* C18: the search-only restriction within one invocation *)

\* C18 as stated: when perplexity_search_only is set and task_type is not
\* "search", no call of the invocation, on the primary path or during
\* fallback, goes to Perplexity.
C18_SearchOnlyAbsolute ==
    \A c \in Callers :
        (/\ gen[c].pc /= "idle"
         /\ router.perplexity_search_only
         /\ gen[c].task_type /= "search") =>
            /\ PERPLEXITY \notin CalledIn(gen[c])
            /\ Awaited(gen[c]) /= PERPLEXITY

----------------------------------------------------------------------------
(* C21: the effect of a primary-path success *)

\* sequence `after` is sequence `buffer` with x appended, the oldest entry
\* evicted when the buffer already held `maxlen` entries
AppendedTo(buffer, x, maxlen, after) ==
    IF Len(buffer) < maxlen
    THEN after = buffer \o <<x>>
    ELSE /\ Len(after) = maxlen
         /\ after[maxlen] = x
         /\ \A i \in 1..(maxlen - 1) : after[i] = buffer[i + 1]

\* caller c's primary provider call ends with success in this step
PrimarySucceeds(c) ==
    /\ gen[c].pc = "call"
    /\ gen'[c].pc = "done"
    /\ gen'[c].result.status = "success"

\* C21: when the primary call of attempt index i on provider P succeeds,
\* usage_stats[P] grows by exactly 1, one success record is appended to
\* usage_history, one timestamp to request_timestamps[P], the estimated
\* cost is added to daily_cost_used, error_counts[P] becomes 0, the result
\* carries retries = i, and usage_stats, request_timestamps and
\* error_counts of every other provider are unchanged.
C21_PrimarySuccessEffect ==
    [][\A c \in Callers :
           PrimarySucceeds(c) =>
               LET P == gen[c].provider
               IN  /\ router'.usage_stats[P] = router.usage_stats[P] + 1
                   /\ AppendedTo(router.usage_history,
                                 [provider |-> P, timestamp |-> now,
                                  success |-> TRUE],
                                 1000, router'.usage_history)
                   /\ AppendedTo(router.request_timestamps[P], now, 100,
                                 router'.request_timestamps[P])
                   /\ router'.daily_cost_used =
                          router.daily_cost_used
                              + EstimatedTokens(gen[c].max_tokens)
                                    * cost_per_million(P)
                   /\ router'.error_counts[P] = 0
                   /\ gen'[c].result.provider = P
                   /\ gen'[c].result.retries = Len(gen[c].log)
                   /\ \A q \in LLMProvider \ {P} :
                          /\ router'.usage_stats[q] = router.usage_stats[q]
                          /\ router'.request_timestamps[q] =
                                 router.request_timestamps[q]
                          /\ router'.error_counts[q] = router.error_counts[q]]_vars

\* a primary call has succeeded at attempt index 1 on a provider whose
\* earlier invocations had failed: its error count is back to 0
C21_Witness ==
    /\ Finished(1)
    /\ gen[1].result.status = "success"
    /\ ~gen[1].result.dry_run
    /\ gen[1].result.fallback_from = None
    /\ gen[1].result.retries = 1
    /\ gen[1].before.error_counts[gen[1].provider] > 0
    /\ router.error_counts[gen[1].provider] = 0
    /\ router.usage_stats[gen[1].provider] =
           gen[1].before.usage_stats[gen[1].provider] + 1

----------------------------------------------------------------------------
(* C22: the retry protocol *)

\* the back-off before the attempt that follows attempt index i
DelayAfter(i) == IF i = 0 THEN 2 ELSE IF i = 1 THEN 4 ELSE 8

\* the primary calls of frame f that have ended
PrimaryCalls(f) == {i \in 1..Len(f.log) : f.log[i].phase = "primary"}

\* in every state: the primary calls of an invocation all went to the
\* provider selected, at most max_retries of them, each one before the
\* last having failed; a timeout ends a call as any other failure does
RetryLoopShape(c) ==
    /\ gen[c].pc /= "idle" /\ ~router.dry_run =>
           /\ Cardinality(PrimaryCalls(gen[c])) <= router.max_retries
           /\ \A i \in PrimaryCalls(gen[c]) :
                  gen[c].log[i].provider = gen[c].provider
    /\ gen[c].pc \in {"call", "sleep"} =>
           /\ PrimaryCalls(gen[c]) = 1..Len(gen[c].log)
           /\ \A i \in 1..Len(gen[c].log) : ~gen[c].log[i].ok
           /\ Len(gen[c].log) < router.max_retries
    /\ gen[c].pc = "call" =>
           ProviderReturned(router, gen[c], "timeout", now) =
               ProviderReturned(router, gen[c], "error", now)

\* a failed attempt that is not the last: nothing is recorded, and the
\* same provider is called again once the delay has passed
RetryWaits(c) ==
    /\ gen[c].pc = "call" /\ gen'[c].pc = "sleep" =>
           /\ Len(gen[c].log) + 1 < router.max_retries
           /\ gen'[c].wake_at = now + DelayAfter(Len(gen[c].log))
           /\ gen'[c].provider = gen[c].provider
           /\ router' = router
           /\ issued' = issued
    /\ gen[c].pc = "sleep" /\ gen'[c].pc /= "sleep" =>
           /\ gen'[c].pc = "call"
           /\ gen'[c].provider = gen[c].provider
           /\ now' >= gen[c].wake_at
           /\ router' = router
           /\ issued' = [issued EXCEPT ![gen[c].provider] = @ + 1]

\* the last attempt fails: the error is recorded once and the fallback
\* is entered
LastAttemptFails(c) ==
    (/\ gen[c].pc = "call"
     /\ gen'[c].pc \in {"fbcall", "done"}
     /\ ~PrimarySucceeds(c)) =>
        LET P == gen[c].provider
        IN  /\ Len(gen[c].log) + 1 = router.max_retries
            /\ router'.error_counts[P] = router.error_counts[P] + 1
            /\ \A q \in LLMProvider \ {P} :
                   router'.error_counts[q] = router.error_counts[q]
            /\ AppendedTo(router.usage_history,
                          [provider |-> P, timestamp |-> now,
                           success |-> FALSE],
                          1000, router'.usage_history)
            /\ router'.usage_stats = router.usage_stats
            /\ \/ /\ gen'[c].pc = "fbcall"
                  /\ gen'[c].failed_provider = P
                  /\ gen'[c].next_provider /= P
               \/ /\ gen'[c].pc = "done"
                  /\ gen'[c].result.error = "all_failed"

----------------------------------------------------------------------------
(* C23: the daily budget rolls over lazily *)

\* caller c's generate() queries the budget in this step: it starts, finds
\* a provider and is not in dry-run
BudgetQueried(c) ==
    /\ gen[c].pc \in {"idle", "done"}
    /\ gen'[c].pc /= "idle"
    /\ ops' = ops + 1
    /\ now' = now
    /\ gen'[c].before = router
    /\ gen'[c].provider /= None
    /\ ~router.dry_run

BudgetRefused(c) ==
    gen'[c].pc = "done" /\ gen'[c].result.error = "budget"

\* C23: on a budget query, if the current date is later than
\* cost_reset_date then daily_cost_used is set to 0 and cost_reset_date to
\* the current date before the comparison with daily_max_cost; otherwise
\* both are left unchanged; and daily_cost_used decreases, and
\* cost_reset_date changes, in no other step.
C23_LazyRollover ==
    [][/\ \A c \in Callers :
              BudgetQueried(c) =>
                  IF Today(now) > router.cost_reset_date
                  THEN /\ router'.daily_cost_used = 0
                       /\ router'.cost_reset_date = Today(now)
                       /\ BudgetRefused(c) <=> 0 >= router.daily_max_cost
                  ELSE /\ router'.daily_cost_used = router.daily_cost_used
                       /\ router'.cost_reset_date = router.cost_reset_date
                       /\ BudgetRefused(c) <=>
                              router.daily_cost_used >= router.daily_max_cost
       /\ (\/ router'.daily_cost_used < router.daily_cost_used
           \/ router'.cost_reset_date /= router.cost_reset_date) =>
              /\ \E c \in Callers : BudgetQueried(c)
              /\ Today(now) > router.cost_reset_date]_vars

\* after midnight a generate() has found money spent the day before,
\* reset it to 0 with the date, and gone on to call its provider
C23_Witness ==
    /\ gen[1].pc = "call"
    /\ gen[1].before.daily_cost_used > 0
    /\ gen[1].before.cost_reset_date = Today(StartTime)
    /\ router.cost_reset_date = Today(StartTime) + 1
    /\ router.daily_cost_used = 0

----------------------------------------------------------------------------
(* C24: the buffers are bounded and the counters additive *)

\* C24: usage_history never holds more than 1000 entries nor any
\* request_timestamps[P] more than 100; usage_stats[P] never decreases;
\* usage_history changes only by the append of one record, which evicts
\* exactly the oldest entry when the buffer is full, and likewise the
\* append of the timestamp of a successful call.
C24_BoundedAdditive ==
    [][/\ Len(router.usage_history) <= 1000
       /\ Len(router'.usage_history) <= 1000
       /\ \A p \in LLMProvider :
              /\ Len(router.request_timestamps[p]) <= 100
              /\ Len(router'.request_timestamps[p]) <= 100
              /\ router'.usage_stats[p] >= router.usage_stats[p]
       /\ \/ router'.usage_history = router.usage_history
          \/ AppendedTo(router.usage_history,
                        router'.usage_history[Len(router'.usage_history)],
                        1000, router'.usage_history)
       /\ \A c \in Callers :
              PrimarySucceeds(c) =>
                  /\ router'.usage_history /= router.usage_history
                  /\ AppendedTo(router.request_timestamps[gen[c].provider],
                                now, 100,
                                router'.request_timestamps[gen[c].provider])]_vars

\* a call has succeeded on a router whose usage_history and
\* request_timestamps of that provider were full: each still holds as
\* many entries, the oldest timestamp is gone
C24_Witness ==
    /\ Finished(1)
    /\ gen[1].result.status = "success"
    /\ gen[1].result.provider = GEMINI
    /\ Len(gen[1].before.usage_history) = 1000
    /\ Len(gen[1].before.request_timestamps[GEMINI]) = 100
    /\ Len(router.usage_history) = 1000
    /\ Len(router.request_timestamps[GEMINI]) = 100
    /\ gen[1].before.request_timestamps[GEMINI][1] = StartTime - 1
    /\ router.request_timestamps[GEMINI][1] = StartTime
    /\ router.usage_stats[GEMINI] = 1001

----------------------------------------------------------------------------
(* C25: no counter update is lost under concurrency *)

Started == {c \in Callers : gen[c].pc /= "idle"}

\* usage_stats[p] when the first of the invocations started
UsageAtStart(p) ==
    LET c == CHOOSE c \in Started :
                 \A d \in Started :
                     gen[c].before.usage_stats[p] <=
                         gen[d].before.usage_stats[p]
    IN  gen[c].before.usage_stats[p]

\* the invocations that have returned success from a provider call on p
SucceededOn(p) ==
    {c \in Callers : /\ Finished(c)
                     /\ gen[c].result.status = "success"
                     /\ ~gen[c].result.dry_run
                     /\ gen[c].result.provider = p}

\* C25: under any interleaving of two generate() calls at their awaits,
\* usage_stats[P] has grown by the number of success results returned
\* with provider P, from a primary or a fallback call.
C25_NoLostUpdate ==
    Started /= {} =>
        \A p \in LLMProvider :
            router.usage_stats[p] =
                UsageAtStart(p) + Cardinality(SucceededOn(p))

\* both invocations were awaiting a call on the same provider at the same
\* time and both have returned success from it
C25_Witness ==
    /\ \A c \in Callers :
           /\ Finished(c)
           /\ gen[c].result.status = "success"
           /\ gen[c].result.provider = gen[1].result.provider
           /\ gen[c].before.usage_stats = gen[1].before.usage_stats
    /\ Cardinality(SucceededOn(gen[1].result.provider)) = 2
    /\ router.usage_stats[gen[1].result.provider] =
           gen[1].before.usage_stats[gen[1].result.provider] + 2

----------------------------------------------------------------------------
(* C26: the breaker and the error count agree *)

\* C26 as stated: in every state reached by interleaved generate() calls,
\* a provider whose breaker has an open time recorded has error_counts of
\* at least 5, and a provider with error_counts below 5 has no open time
\* recorded; so a success that resets error_counts[P] to 0 does not leave
\* the breaker of P open.
C26_BreakerMatchesCount ==
    \A p \in LLMProvider :
        /\ router.circuit_breaker_timers[p] /= NoneInt =>
               router.error_counts[p] >= 5
        /\ router.error_counts[p] < 5 =>
               router.circuit_breaker_timers[p] = NoneInt

----------------------------------------------------------------------------
(* C27: the budget gate under concurrency *)

\* the budget is spent and the date has not rolled over
BudgetSpent ==
    /\ ~router.dry_run
    /\ router.daily_cost_used >= router.daily_max_cost
    /\ Today(now) <= router.cost_reset_date

\* C27 as stated: with dry_run false, once daily_cost_used >=
\* daily_max_cost no provider call (primary attempt, retry or fallback
\* attempt) is started by any invocation, those in progress included,
\* until the date rolls over; and a generate() that returns the budget
\* error leaves usage_stats, usage_history, request_timestamps and
\* error_counts unchanged.
C27_BudgetFailsClosed ==
    [][/\ BudgetSpent => issued' = issued
       /\ \A c \in Callers :
              (/\ gen[c].pc \in {"idle", "done"}
               /\ gen'[c] /= gen[c]
               /\ gen'[c].pc = "done"
               /\ gen'[c].result.error = "budget") =>
                  /\ router'.usage_stats = router.usage_stats
                  /\ router'.usage_history = router.usage_history
                  /\ router'.request_timestamps = router.request_timestamps
                  /\ router'.error_counts = router.error_counts]_vars

----------------------------------------------------------------------------
(* C28: the cost reported and the cost accounted *)

\* C28 as stated: for every primary-path success on provider P the
\* estimated cost reported in the result equals the amount the call added
\* to daily_cost_used: the estimated tokens times the rate of P in the
\* table of _record_cost.
C28_ReportedCostIsAccountedCost ==
    [][\A c \in Callers :
           PrimarySucceeds(c) =>
               /\ gen'[c].result.cost =
                      router'.daily_cost_used - router.daily_cost_used
               /\ gen'[c].result.cost =
                      EstimatedTokens(gen[c].max_tokens)
                          * cost_per_million(gen[c].provider)]_vars

----------------------------------------------------------------------------
(* C29: a disabled provider is not used *)

\* provider p was disabled before the invocation of frame f started: it
\* was in the priority list at construction (the default list) and was
\* not when the invocation started; nothing in these runs puts it back
DisabledBefore(f, p) ==
    /\ f.pc /= "idle"
    /\ Contains(DefaultPriority, p)
    /\ ~Contains(f.before.priority, p)

\* C29 as stated: after disable_provider(P), and until P is put back, no
\* generate() invocation selects or calls P, be it as preferred provider,
\* by search affinity, by priority order or as fallback.
C29_DisabledProviderUnused ==
    \A c \in Callers, p \in LLMProvider :
        DisabledBefore(gen[c], p) =>
            /\ gen[c].provider /= p
            /\ p \notin CalledIn(gen[c])
            /\ Awaited(gen[c]) /= p

----------------------------------------------------------------------------
(* C30: the scheduler's queue and its registry *)

\* C30 as stated: after any sequence of schedule_task, get_next_task and
\* update_task_status calls the queue is sorted by descending priority,
\* every queued entry is the task registered in scheduled_tasks under its
\* task_id, with status "scheduled", and no task_id occurs twice in the
\* queue.
C30_QueueMatchesRegistry ==
    /\ \A i, j \in 1..Len(task_queue) :
           i < j => task_queue[i].priority >= task_queue[j].priority
    /\ \A i \in 1..Len(task_queue) :
           /\ task_queue[i].task_id \in DOMAIN scheduled_tasks
           /\ scheduled_tasks[task_queue[i].task_id] = task_queue[i].obj
           /\ task_status[task_queue[i].obj] = "scheduled"
    /\ \A i, j \in 1..Len(task_queue) :
           i /= j => task_queue[i].task_id /= task_queue[j].task_id

====
